---- MODULE Spec2Model ----
(***************************************************************************)
(* Model of the product-photo pipeline: GeminiClient.analyze_images        *)
(* (batching, retry, response parsing and alignment) followed by           *)
(* DataProcessor.process_results (cleaning, completeness score, status).   *)
(*                                                                         *)
(* Python strings are sequences of one-character strings, so that strip,   *)
(* lower, replace and re.sub are computed and not assumed.  A JSON value   *)
(* is a record [type, v]: type "str" with its characters, type "null", or  *)
(* type "num" with its digits.  A Python dict is a function from keys to   *)
(* such values.                                                            *)
(***************************************************************************)
EXTENDS Integers, Sequences, FiniteSets, TLC

(* ----------------------------- bounds ---------------------------------- *)
\* largest number of images handed to analyze_images
MaxImages == 2
\* largest configured BATCH_SIZE explored
MaxBatchSize == 2
\* largest number of products the model returns beyond the batch length
MaxExtra == 1
\* largest number of seconds between the start of main and the call of
\* generate_output_files
MaxElapsed == 1

(* --------------------------- configuration ----------------------------- *)
\* @retry(stop=stop_after_attempt(3), wait=wait_exponential(multiplier=1, min=4, max=10))
StopAfterAttempt == 3
WaitMultiplier == 1
WaitMin == 4
WaitMax == 10
\* if completeness_score >= 80
CompleteThreshold == 80
\* MAX_IMAGE_SIZE_MB, in a unit in which the ceiling is a whole number
MAX_IMAGE_SIZE_MB == 2
\* COMPRESSION_QUALITY
COMPRESSION_QUALITY == 85
\* for attempt in range(5)
MaxCompressAttempts == 5
\* quality = max(20, quality - 15)
QualityFloor == 20
QualityStep == 15

\* PRODUCT_SCHEMA.keys(), in insertion order
PRODUCT_SCHEMA ==
  <<"nom_produit", "description_type", "volume", "prix_fcfa",
    "code_barres_ean", "code_article", "source_information">>

SchemaFields == {PRODUCT_SCHEMA[k] : k \in 1..Len(PRODUCT_SCHEMA)}

(* ------------------------------ strings -------------------------------- *)
NonDetecte == <<"N","o","n"," ","d","é","t","e","c","t","é">>
ErreurDAnalyse == <<"E","r","r","e","u","r"," ","d","'","a","n","a","l","y","s","e">>
NonAnalyse == <<"N","o","n"," ","a","n","a","l","y","s","é">>
ImageInconnue == <<"i","m","a","g","e","_","i","n","c","o","n","n","u","e","_">>
ErreurPrefix == <<"E","r","r","e","u","r",":"," ">>
\* "Erreur de parsing JSON"
MsgJSON == <<"E","r","r","e","u","r"," ","d","e"," ","p","a","r","s","i","n","g"," ","J","S","O","N">>
\* "Format de réponse invalide: clé 'produits' manquante"
MsgProduits == <<"F","o","r","m","a","t"," ","d","e"," ","r","é","p","o","n","s","e"," ","i","n","v","a","l","i","d","e",":"," ","c","l","é"," ","'","p","r","o","d","u","i","t","s","'"," ","m","a","n","q","u","a","n","t","e">>
\* str(TypeError) of product['nom_fichier'] = ... on a product that is a JSON string
MsgItem == <<"'","s","t","r","'"," ","o","b","j","e","c","t"," ","d","o","e","s"," ","n","o","t"," ","s","u","p","p","o","r","t"," ","i","t","e","m"," ","a","s","s","i","g","n","m","e","n","t">>
\* str(tenacity.RetryError); the address of the future is left out
MsgRetry == <<"R","e","t","r","y","E","r","r","o","r","[","<","F","u","t","u","r","e"," ","s","t","a","t","e","=","f","i","n","i","s","h","e","d",">","]">>

Whitespace == {" ", "\n", "\t"}
Digits == {"0","1","2","3","4","5","6","7","8","9"}

UpperCase == <<"A","B","C","D","E","F","G","H","I","J","K","L","M","N","O","P","Q","R","S","T","U","V","W","X","Y","Z","É">>
LowerCase == <<"a","b","c","d","e","f","g","h","i","j","k","l","m","n","o","p","q","r","s","t","u","v","w","x","y","z","é">>

LowerChar(c) ==
  IF \E k \in 1..Len(UpperCase) : UpperCase[k] = c
  THEN LowerCase[CHOOSE k \in 1..Len(UpperCase) : UpperCase[k] = c]
  ELSE c

\* str.lower()
Lower(s) == [k \in 1..Len(s) |-> LowerChar(s[k])]

RECURSIVE LStrip(_)
LStrip(s) ==
  IF s # <<>> /\ Head(s) \in Whitespace THEN LStrip(Tail(s)) ELSE s

RECURSIVE RStrip(_)
RStrip(s) ==
  IF s # <<>> /\ s[Len(s)] \in Whitespace
  THEN RStrip(SubSeq(s, 1, Len(s) - 1)) ELSE s

\* str.strip()
Strip(s) == RStrip(LStrip(s))

\* str.startswith / str.endswith
StartsWith(s, p) == Len(s) >= Len(p) /\ SubSeq(s, 1, Len(p)) = p
EndsWith(s, p) == Len(s) >= Len(p) /\ SubSeq(s, Len(s) - Len(p) + 1, Len(s)) = p

\* str.replace(old, new): leftmost non-overlapping occurrences
RECURSIVE Replace(_, _, _)
Replace(s, old, new) ==
  IF Len(s) < Len(old) THEN s
  ELSE IF SubSeq(s, 1, Len(old)) = old
       THEN new \o Replace(SubSeq(s, Len(old) + 1, Len(s)), old, new)
       ELSE <<Head(s)>> \o Replace(Tail(s), old, new)

\* re.sub(r'[^...]', '', s): keep the characters of the set
Keep(s, set) == SelectSeq(s, LAMBDA c : c \in set)

(* ------------------------------- values -------------------------------- *)
Str(s) == [type |-> "str", v |-> s]
Null == [type |-> "null", v |-> <<>>]
Num(d) == [type |-> "num", v |-> d]

\* Python truth value of a JSON value
Truthy(x) ==
  CASE x.type = "str" -> x.v # <<>>
    [] x.type = "num" -> x.v # <<"0">>
    [] OTHER -> FALSE

(* --------------------- DataProcessor: cleaning ------------------------- *)
\* ['', 'n/a', 'na', 'null', 'none', '?', '-']
SpecialValues ==
  { <<>>, <<"n","/","a">>, <<"n","a">>, <<"n","u","l","l">>,
    <<"n","o","n","e">>, <<"?">>, <<"-">> }

_clean_price(price_str) ==
  IF price_str = NonDetecte THEN price_str
  ELSE LET cleaned == Keep(price_str, Digits \cup {".", ","})
       IN IF cleaned = <<>> THEN NonDetecte ELSE cleaned

\* the replacements dict, in insertion order
Replacements ==
  << <<<<"l","i","t","r","e","s">>, <<"L">>>>,
     <<<<"l","i","t","r","e">>, <<"L">>>>,
     <<<<"m","i","l","l","i","l","i","t","r","e","s">>, <<"m","L">>>>,
     <<<<"m","i","l","l","i","l","i","t","r","e">>, <<"m","L">>>>,
     <<<<"g","r","a","m","m","e","s">>, <<"g">>>>,
     <<<<"g","r","a","m","m","e">>, <<"g">>>>,
     <<<<"k","i","l","o","g","r","a","m","m","e","s">>, <<"k","g">>>>,
     <<<<"k","i","l","o","g","r","a","m","m","e">>, <<"k","g">>>> >>

\* for old, new in replacements.items(): volume_str = volume_str.replace(old, new)
RECURSIVE ApplyReplacements(_, _)
ApplyReplacements(s, k) ==
  IF k > Len(Replacements) THEN s
  ELSE ApplyReplacements(Replace(s, Replacements[k][1], Replacements[k][2]), k + 1)

_clean_volume(volume_str) ==
  IF volume_str = NonDetecte THEN volume_str
  ELSE Strip(ApplyReplacements(Lower(volume_str), 1))

_clean_barcode(barcode_str) ==
  IF barcode_str = NonDetecte THEN barcode_str
  ELSE LET cleaned == Keep(barcode_str, Digits)
       IN IF cleaned = <<>> THEN NonDetecte ELSE cleaned

\* the body of the loop "for field in PRODUCT_SCHEMA.keys()" of _clean_result
CleanField(field, value) ==
  IF value.type = "str"
  THEN LET stripped == Strip(value.v)
       IN IF Lower(stripped) \in SpecialValues THEN Str(NonDetecte)
          ELSE IF field = "prix_fcfa" THEN Str(_clean_price(stripped))
          ELSE IF field = "volume" THEN Str(_clean_volume(stripped))
          ELSE IF field = "code_barres_ean" THEN Str(_clean_barcode(stripped))
          ELSE Str(stripped)
  ELSE value

MetaFields == {"nom_fichier", "chemin_fichier", "erreur"}

_clean_result(result) ==
  [k \in SchemaFields \cup (MetaFields \cap DOMAIN result) |->
     IF k \in SchemaFields
     THEN CleanField(k, IF k \in DOMAIN result THEN result[k] ELSE Str(NonDetecte))
     ELSE result[k]]

\* value and value != "Non détecté" and value != "Erreur d'analyse"
IsComplete(value) ==
  /\ Truthy(value)
  /\ value # Str(NonDetecte)
  /\ value # Str(ErreurDAnalyse)

\* (complete_fields / total_fields) * 100, kept as the exact fraction num/den
_calculate_completeness(result) ==
  LET complete_fields ==
        Cardinality({f \in SchemaFields :
                       f \in DOMAIN result /\ IsComplete(result[f])})
  IN [num |-> complete_fields * 100, den |-> Len(PRODUCT_SCHEMA)]

\* score >= n, for a score num/den and an integer n
ScoreAtLeast(score, n) == score.num >= n * score.den
ScoreAtMost(score, n) == score.num <= n * score.den

\* the if/elif/else that sets cleaned_result['statut']
Statut(cleaned_result, completeness_score) ==
  IF "erreur" \in DOMAIN cleaned_result THEN "Erreur"
  ELSE IF ScoreAtLeast(completeness_score, CompleteThreshold) THEN "Complet"
  ELSE "Partiel"

\* process_results scoring the raw result instead of the cleaned one
ProcessOne_raw_score(result, i) ==
  LET cleaned_result == _clean_result(result)
      completeness_score == _calculate_completeness(result)
      statut == Statut(cleaned_result, completeness_score)
  IN [k \in DOMAIN cleaned_result \cup
            {"numero_sequence", "score_completude", "statut"} |->
        CASE k = "numero_sequence" -> i
          [] k = "score_completude" -> completeness_score
          [] k = "statut" -> statut
          [] OTHER -> cleaned_result[k]]

\* one iteration of the loop of process_results, on the i-th raw result
\* (date_traitement, the wall-clock stamp, is left out of the record)
ProcessOne(result, i) ==
  LET cleaned_result == _clean_result(result)
      completeness_score == _calculate_completeness(cleaned_result)
      statut == Statut(cleaned_result, completeness_score)
  IN [k \in DOMAIN cleaned_result \cup
            {"numero_sequence", "score_completude", "statut"} |->
        CASE k = "numero_sequence" -> i
          [] k = "score_completude" -> completeness_score
          [] k = "statut" -> statut
          [] OTHER -> cleaned_result[k]]

\* no value of the model makes an iteration raise, so no record is skipped
process_results(raw_results) ==
  [i \in 1..Len(raw_results) |-> ProcessOne(raw_results[i], i)]

(* ----------------------- GeminiClient: records -------------------------- *)
\* PROCESSED_DIR, as the prefix of str(image_path)
ProcessedDir == <<"d","a","t","a","/","p","r","o","c","e","s","s","e","d","/">>

\* str(image_path) for the image whose image_path.name is name
PathOf(name) == ProcessedDir \o name

\* str(n) for a natural number n
RECURSIVE ToDigits(_)
ToDigits(n) ==
  LET d == <<"0","1","2","3","4","5","6","7","8","9">>[(n % 10) + 1]
  IN IF n < 10 THEN <<d>> ELSE ToDigits(n \div 10) \o <<d>>

\* _validate_product_data that trims the strings but fills nothing in
_validate_product_data_trim_only(product) ==
  [k \in DOMAIN product |->
     IF product[k].type = "str" THEN Str(Strip(product[k].v)) ELSE product[k]]

_validate_product_data(product) ==
  LET filled ==
        [k \in DOMAIN product \cup SchemaFields |->
           IF k \in SchemaFields /\ (k \notin DOMAIN product \/ product[k].type = "null")
           THEN Str(NonDetecte)
           ELSE product[k]]
  IN [k \in DOMAIN filled |->
        IF filled[k].type = "str" THEN Str(Strip(filled[k].v))
        ELSE IF filled[k].type = "null" THEN Str(NonDetecte)
        ELSE filled[k]]

\* _create_empty_result without the update of source_information
_create_empty_result_bare(name) ==
  [k \in SchemaFields \cup {"nom_fichier", "chemin_fichier"} |->
     CASE k = "nom_fichier" -> Str(name)
       [] k = "chemin_fichier" -> Str(PathOf(name))
       [] OTHER -> Str(NonDetecte)]

_create_empty_result(name) ==
  [k \in SchemaFields \cup {"nom_fichier", "chemin_fichier"} |->
     CASE k = "nom_fichier" -> Str(name)
       [] k = "chemin_fichier" -> Str(PathOf(name))
       [] k = "source_information" -> Str(NonAnalyse)
       [] OTHER -> Str(NonDetecte)]

\* _create_error_result without the key 'erreur'
_create_error_result_unflagged(name, error_message) ==
  [k \in SchemaFields \cup {"nom_fichier", "chemin_fichier"} |->
     CASE k = "nom_fichier" -> Str(name)
       [] k = "chemin_fichier" -> Str(PathOf(name))
       [] k = "source_information" -> Str(ErreurPrefix \o error_message)
       [] OTHER -> Str(ErreurDAnalyse)]

_create_error_result(name, error_message) ==
  [k \in SchemaFields \cup {"nom_fichier", "chemin_fichier", "erreur"} |->
     CASE k = "nom_fichier" -> Str(name)
       [] k = "chemin_fichier" -> Str(PathOf(name))
       [] k = "source_information" -> Str(ErreurPrefix \o error_message)
       [] k = "erreur" -> Str(error_message)
       [] OTHER -> Str(ErreurDAnalyse)]

\* one error result for the whole batch instead of one per image
ErrorResults_first_only(image_names, error_message) ==
  <<_create_error_result(image_names[1], error_message)>>

\* [self._create_error_result(img_path, msg) for img_path in image_paths]
ErrorResults(image_names, error_message) ==
  [k \in 1..Len(image_names) |-> _create_error_result(image_names[k], error_message)]

(* ------------------- the model's answers (inputs) ----------------------- *)
\* The entries the model may put in the "produits" array.  PA is a fully
\* readable product, PB lacks source_information and has a price and a
\* barcode without digits, PC has a null field, a numeric price and a key
\* "erreur" of its own, PS is a JSON string where an object is expected.
ProductIds == {"PA", "PB", "PC", "PS"}

IsObject(id) == id # "PS"

Product(id) ==
  CASE id = "PA" ->
         [nom_produit |-> Str(<<" "," ","L","a","i","t"," "," ">>),
          description_type |-> Str(<<"U","H","T"," ","1","L">>),
          volume |-> Str(<<"2"," ","L","i","t","r","e","s">>),
          prix_fcfa |-> Str(<<"1"," ","2","0","0",",","5","0"," ","F","C","F","A">>),
          code_barres_ean |-> Str(<<"3"," ","7","6","0","-","1","2","3">>),
          code_article |-> Str(<<"A","-","1">>),
          source_information |-> Str(<<"L","i","s","i","b","l","e">>)]
    [] id = "PB" ->
         [nom_produit |-> Str(<<"R","i","z">>),
          description_type |-> Str(<<"S","a","c">>),
          volume |-> Str(<<"2"," ","k","i","l","o","g","r","a","m","m","e","s">>),
          prix_fcfa |-> Str(<<"F","C","F","A">>),
          code_barres_ean |-> Str(<<"N","/","A">>),
          code_article |-> Str(<<"A","-","1">>)]
    [] id = "PC" ->
         [nom_produit |-> Str(<<"E","a","u">>),
          description_type |-> Null,
          volume |-> Str(<<"5","0","0"," ","m","i","l","l","i","l","i","t","r","e","s">>),
          prix_fcfa |-> Num(<<"1","2","0","0">>),
          code_barres_ean |-> Str(<<"3"," ","7","6","0","-","1","2","3">>),
          code_article |-> Str(<<"A","-","1">>),
          source_information |-> Str(<<"P","a","r","t","i","e","l","l","e","m","e","n","t"," ","l","i","s","i","b","l","e">>),
          erreur |-> Str(<<"a","u","c","u","n","e">>)]

\* The text of a response is a sequence of characters in which the JSON
\* document is one symbol: "{produits}" an object with a "produits" array,
\* "{}" an object without that key, "garbage" text that is not JSON.
Bodies == {"{produits}", "{}", "garbage"}

\* the character U+0060 (a string of TLA+ cannot hold it)
Backtick == "U+0060"

FenceJson == <<Backtick, Backtick, Backtick, "j","s","o","n">>
FenceEnd == <<Backtick, Backtick, Backtick>>

\* the body alone, in a fence opened with the tag json, in a plain fence
ResponseTexts(body) ==
  { <<body>>,
    FenceJson \o <<"\n", body, "\n">> \o FenceEnd,
    FenceEnd \o <<"\n", body, "\n">> \o FenceEnd }

(* ----------------------- GeminiClient: parsing -------------------------- *)
\* lines 207-212: strip, drop a leading json fence, drop a trailing fence, strip
StripFence(response_text) ==
  LET c0 == Strip(response_text)
      c1 == IF StartsWith(c0, FenceJson) THEN SubSeq(c0, 8, Len(c0)) ELSE c0
      c2 == IF EndsWith(c1, FenceEnd) THEN SubSeq(c1, 1, Len(c1) - 3) ELSE c1
  IN Strip(c2)

\* json.loads followed by the test of the 'produits' key
JsonLoads(cleaned_response) ==
  IF cleaned_response = <<"{produits}">> THEN "produits"
  ELSE IF cleaned_response = <<"{}">> THEN "nokey"
  ELSE "JSONDecodeError"

\* lines 226-234: the i-th product (i counted from 0) gets its file name and path
BindProduct(id, i, image_names) ==
  LET product == Product(id)
      bound ==
        [k \in DOMAIN product \cup {"nom_fichier", "chemin_fichier"} |->
           IF k = "nom_fichier"
           THEN IF i < Len(image_names) THEN Str(image_names[i + 1])
                ELSE Str(ImageInconnue \o ToDigits(i + 1))
           ELSE IF k = "chemin_fichier"
           THEN IF i < Len(image_names) THEN Str(PathOf(image_names[i + 1]))
                ELSE Str(<<>>)
           ELSE product[k]]
  IN _validate_product_data(bound)

\* _parse_gemini_response that drops the products beyond the images of the batch
_parse_gemini_response_truncating(response_text, produits, image_names) ==
  LET parsed == JsonLoads(StripFence(response_text))
  IN IF parsed = "JSONDecodeError" THEN ErrorResults(image_names, MsgJSON)
     ELSE IF parsed = "nokey" THEN ErrorResults(image_names, MsgProduits)
     ELSE IF \E k \in 1..Len(produits) : ~IsObject(produits[k])
          THEN ErrorResults(image_names, MsgItem)
     ELSE [k \in 1..Len(image_names) |->
             IF k <= Len(produits)
             THEN BindProduct(produits[k], k - 1, image_names)
             ELSE _create_empty_result(image_names[k])]

\* produits is the content of the "produits" array when the body has one
_parse_gemini_response(response_text, produits, image_names) ==
  LET parsed == JsonLoads(StripFence(response_text))
  IN IF parsed = "JSONDecodeError" THEN ErrorResults(image_names, MsgJSON)
     ELSE IF parsed = "nokey" THEN ErrorResults(image_names, MsgProduits)
     ELSE IF \E k \in 1..Len(produits) : ~IsObject(produits[k])
          THEN ErrorResults(image_names, MsgItem)
     ELSE [k \in 1..(IF Len(produits) > Len(image_names)
                     THEN Len(produits) ELSE Len(image_names)) |->
             IF k <= Len(produits)
             THEN BindProduct(produits[k], k - 1, image_names)
             ELSE _create_empty_result(image_names[k])]

(* ------------------- FileManager and ImageProcessor -------------------- *)
\* SUPPORTED_IMAGE_FORMATS
SUPPORTED_IMAGE_FORMATS ==
  { <<".","j","p","g">>, <<".","j","p","e","g">>, <<".","p","n","g">>,
    <<".","w","e","b","p">>, <<".","h","e","i","c">>, <<".","h","e","i","f">> }

\* pathlib's suffix of a file name: from the last dot, unless the name
\* starts or ends with it
Suffix(name) ==
  LET dots == {k \in 1..Len(name) : name[k] = "."}
  IN IF dots = {} THEN <<>>
     ELSE LET last == CHOOSE k \in dots : \A l \in dots : l <= k
          IN IF last = 1 \/ last = Len(name) THEN <<>>
             ELSE SubSeq(name, last, Len(name))

\* a filter that lets every file through
_is_valid_image_any(name) == TRUE

_is_valid_image(name) == Lower(Suffix(name)) \in SUPPORTED_IMAGE_FORMATS

\* the characters of the file names, in code point order
CodeOrder ==
  <<" ", ".", "0","1","2","3","4","5","6","7","8","9",
    "A","B","C","D","E","F","G","H","I","J","K","L","M","N","O","P","Q","R",
    "S","T","U","V","W","X","Y","Z", "_",
    "a","b","c","d","e","f","g","h","i","j","k","l","m","n","o","p","q","r",
    "s","t","u","v","w","x","y","z">>

Ord(c) == CHOOSE k \in 1..Len(CodeOrder) : CodeOrder[k] = c

\* a < b for two file names, as sorted() compares them
RECURSIVE NameLess(_, _)
NameLess(a, b) ==
  IF b = <<>> THEN FALSE
  ELSE IF a = <<>> THEN TRUE
  ELSE IF Head(a) = Head(b) THEN NameLess(Tail(a), Tail(b))
  ELSE Ord(Head(a)) < Ord(Head(b))

\* sorted(images)
RECURSIVE Sorted(_)
Sorted(names) ==
  IF names = {} THEN <<>>
  ELSE LET first == CHOOSE n \in names : \A m \in names \ {n} : NameLess(n, m)
       IN <<first>> \o Sorted(names \ {first})

\* FileManager.get_input_images on the files of the input directory
get_input_images(dir) ==
  Sorted({f.name : f \in {g \in dir : _is_valid_image(g.name)}})

\* the size of the file called name in the directory dir, 0.0 when absent
get_file_size_mb(dir, name) ==
  IF \E f \in dir : f.name = name
  THEN (CHOOSE f \in dir : f.name = name).size
  ELSE 0

\* writing a file of the given size under the given name in a directory
WriteFile(dir, name, size) ==
  {f \in dir : f.name # name} \cup {[name |-> name, size |-> size]}

\* the paths of image_paths that validate_processed_images keeps
RECURSIVE validate_processed_images(_, _)
validate_processed_images(image_paths, dir) ==
  IF image_paths = <<>> THEN <<>>
  ELSE LET rest == validate_processed_images(Tail(image_paths), dir)
       IN IF get_file_size_mb(dir, Head(image_paths)) > MAX_IMAGE_SIZE_MB
          THEN rest
          ELSE <<Head(image_paths)>> \o rest

\* sizes of the files of the input directory and of the encoder's outputs:
\* at the ceiling and over it
SizePool == {MAX_IMAGE_SIZE_MB, MAX_IMAGE_SIZE_MB + 1}

\* a file of the input directory without a supported extension
NotesTxt == <<"n","o","t","e","s",".","t","x","t">>

\* exit_status while main has not returned
NotReturned == -1

\* datetime.now() at the start of main, in seconds
StartTime == 0

(* --------------------------- the run's state --------------------------- *)
VARIABLES
  images,          \* image_path.name of each path given to analyze_images
  batch_size,      \* self.batch_size
  pc,              \* "main" outside analyze_images, else "attempt", "sleep", "process" or "done"
  i,               \* the loop variable i of analyze_images
  attempt,         \* attempt number of _analyze_batch for the current batch
  calls,           \* generate_content calls made for the current batch
  wait,            \* length of the sleep in progress, 0 when none
  all_results,     \* all_results of analyze_images
  outcome,         \* one entry per settled batch: how it ended, where its records are
  processed_data,  \* the list returned by process_results
  model_products,  \* the entries the model may put in a "produits" array in this run
  phase,           \* the numbered step of main that comes next, or "exit"
  exit_status,     \* the value main returned, "none" while it runs
  steps,           \* the calls main has made so far, in order
  input_dir,       \* the files of INPUT_DIR: name and size, sorted by name
  input_images,    \* input_images of main
  idx,             \* the loop variable i of process_batch
  ip,              \* _process_single_image: "idle", "loop" (in _compress_image) or "ret"
  quality,         \* quality of _compress_image
  encodes,         \* number of img.save calls made for the current image
  saved,           \* the img.save calls made for the current image: quality and size
  compression_quality, \* self.compression_quality
  last_op,         \* what wrote the output of the current image: "copy2" or "save"
  processed_images, \* processed_images of process_batch
  processed_dir,   \* the files of PROCESSED_DIR: name and size
  warnings,        \* names for which "Impossible de réduire" was logged
  excluded,        \* names whose processing raised in process_batch
  summary,         \* the report of generate_summary_report, "none" before
  session_id,      \* session_id of main
  output_files,    \* the files of OUTPUT_DIR written by the run: kind and session id
  archive          \* the files of ARCHIVE_DIR: session folder and name

\* the state of analyze_images and process_results
avars == <<images, batch_size, pc, i, attempt, calls, wait, all_results,
           outcome, processed_data, model_products>>

\* the state of the image processor
pvars == <<idx, ip, quality, encodes, saved, compression_quality, last_op,
           processed_images,
           processed_dir, warnings, excluded>>

\* the state of main around the analysis
mvars == <<phase, exit_status, steps, input_dir, input_images, summary,
           session_id, output_files, archive>>

vars == <<avars, pvars, mvars>>

\* names of the files of the input directory, in the order of sorted()
ImagePool ==
  << <<" ","a",".","j","p","g">>, <<"b",".","j","p","g">>,
     <<"c",".","p","n","g">>, <<"d",".","w","e","b","p">>,
     <<"e",".","h","e","i","c">> >>

Min(a, b) == IF a < b THEN a ELSE b
Max(a, b) == IF a > b THEN a ELSE b

RECURSIVE Pow2(_)
Pow2(n) == IF n = 0 THEN 1 ELSE 2 * Pow2(n - 1)

\* wait_exponential without the lower clamp min=4
WaitExponential_unclamped(attempt_number) ==
  LET exp == Pow2(attempt_number - 1)
      result == WaitMultiplier * exp
  IN Max(0, Min(result, WaitMax))

\* tenacity.wait_exponential.__call__ for the attempt that has just failed
WaitExponential(attempt_number) ==
  LET exp == Pow2(attempt_number - 1)
      result == WaitMultiplier * exp
  IN Max(Max(0, WaitMin), Min(result, WaitMax))

\* stop_after_attempt that gives up one attempt early
StopNow_early(attempt_number) == attempt_number >= StopAfterAttempt - 1

\* tenacity.stop_after_attempt.__call__
StopNow(attempt_number) == attempt_number >= StopAfterAttempt

\* image_paths[i:i + self.batch_size]
Batch(start) == SubSeq(images, start + 1, Min(start + batch_size, Len(images)))

\* (total_images + self.batch_size - 1) // self.batch_size
TotalBatches == (Len(images) + batch_size - 1) \div batch_size

\* the calls main makes before analyze_images returns, in order
StepsToAnalysis ==
  <<"validate_directories", "test_api_connection", "get_input_images",
    "process_batch", "validate_processed_images", "analyze_images">>

\* analyze_images and process_results on their own: main has reached
\* analyze_images with at least one valid image, every image staged as is
Init ==
  /\ \E lo \in 1..Min(MaxImages, Len(ImagePool)) :
       \E hi \in lo..Min(MaxImages, Len(ImagePool)) :
         images = SubSeq(ImagePool, lo, hi)
  /\ batch_size \in 1..MaxBatchSize
  /\ pc = "attempt"
  /\ i = 0
  /\ attempt = 1
  /\ calls = 0
  /\ wait = 0
  /\ all_results = <<>>
  /\ outcome = <<>>
  /\ processed_data = <<>>
  /\ model_products = ProductIds
  /\ phase = "analyze_images"
  /\ exit_status = NotReturned
  /\ steps = StepsToAnalysis
  /\ input_dir = {[name |-> images[k], size |-> MAX_IMAGE_SIZE_MB] :
                    k \in 1..Len(images)}
  /\ input_images = images
  /\ idx = Len(images) + 1
  /\ ip = "idle"
  /\ quality = 0
  /\ encodes = 0
  /\ saved = <<>>
  /\ compression_quality = COMPRESSION_QUALITY
  /\ last_op = "none"
  /\ processed_images = images
  /\ processed_dir = input_dir
  /\ warnings = {}
  /\ excluded = {}
  /\ summary = <<>>
  /\ session_id = StartTime
  /\ output_files = {}
  /\ archive = {}

\* all_results.extend / append for the current batch, then the next iteration
Settle(batch_results, kind, produits) ==
  /\ i' = i + batch_size
  /\ attempt' = 1
  /\ wait' = 0
  /\ pc' = IF i + batch_size < Len(images) THEN "attempt" ELSE "process"
  /\ outcome' = Append(outcome, [kind |-> kind, produits |-> produits,
                                 first |-> Len(all_results),
                                 start |-> i])
  /\ all_results' = all_results \o batch_results

\* an attempt of _analyze_batch raised: tenacity sleeps and retries, or gives
\* up with RetryError, which analyze_images turns into error results
Fail ==
  IF StopNow(attempt)
  THEN Settle(ErrorResults(Batch(i), MsgRetry), "retry", <<>>)
  ELSE /\ pc' = "sleep"
       /\ wait' = WaitExponential(attempt)
       /\ UNCHANGED <<i, attempt, all_results, outcome>>

\* _encode_image raises before the model is called
EncodeFails ==
  /\ pc = "attempt"
  /\ Fail
  /\ IF StopNow(attempt) THEN calls' = 0 ELSE calls' = calls
  /\ UNCHANGED <<images, batch_size, processed_data, model_products>>
  /\ UNCHANGED <<pvars, mvars>>

\* self.model.generate_content raises
CallRaises ==
  /\ pc = "attempt"
  /\ Fail
  /\ IF StopNow(attempt) THEN calls' = 0 ELSE calls' = calls + 1
  /\ UNCHANGED <<images, batch_size, processed_data, model_products>>
  /\ UNCHANGED <<pvars, mvars>>

\* response.text is empty: raise ValueError
EmptyResponse ==
  /\ pc = "attempt"
  /\ Fail
  /\ IF StopNow(attempt) THEN calls' = 0 ELSE calls' = calls + 1
  /\ UNCHANGED <<images, batch_size, processed_data, model_products>>
  /\ UNCHANGED <<pvars, mvars>>

\* how _parse_gemini_response ended on this text
ParseKind(response_text, produits) ==
  LET parsed == JsonLoads(StripFence(response_text))
  IN IF parsed = "JSONDecodeError" THEN "json"
     ELSE IF parsed = "nokey" THEN "nokey"
     ELSE IF \E k \in 1..Len(produits) : ~IsObject(produits[k]) THEN "item"
     ELSE "ok"

\* the model answers with a text: _parse_gemini_response returns the records
Respond(response_text, produits) ==
  /\ pc = "attempt"
  /\ LET kind == ParseKind(response_text, produits)
     IN Settle(_parse_gemini_response(response_text, produits, Batch(i)),
               kind, IF kind = "ok" THEN produits ELSE <<>>)
  /\ calls' = 0
  /\ UNCHANGED <<images, batch_size, processed_data, model_products>>
  /\ UNCHANGED <<pvars, mvars>>

\* time.sleep(wait) between two attempts
Sleep ==
  /\ pc = "sleep"
  /\ pc' = "attempt"
  /\ attempt' = attempt + 1
  /\ wait' = 0
  /\ UNCHANGED <<images, batch_size, i, calls, all_results, outcome, processed_data,
                 model_products>>
  /\ UNCHANGED <<pvars, mvars>>

\* final_data = data_processor.process_results(analysis_results)
ProcessResults ==
  /\ pc = "process"
  /\ processed_data' = process_results(all_results)
  /\ pc' = "done"
  /\ UNCHANGED <<images, batch_size, i, attempt, calls, wait, all_results, outcome,
                 model_products>>
  /\ UNCHANGED <<pvars, mvars>>

\* the arrays the model may return for a batch of n images
ProductLists(n) == UNION {[1..k -> model_products] : k \in 0..(n + MaxExtra)}

\* the array is enumerated only for the texts in which json.loads finds it:
\* no other text lets the code read it
Answer ==
  /\ pc = "attempt"
  /\ \E body \in Bodies :
       \E response_text \in ResponseTexts(body) :
         \E produits \in (IF JsonLoads(StripFence(response_text)) = "produits"
                          THEN ProductLists(Len(Batch(i))) ELSE {<<>>}) :
           Respond(response_text, produits)

Next ==
  \/ EncodeFails
  \/ CallRaises
  \/ EmptyResponse
  \/ Answer
  \/ Sleep
  \/ ProcessResults

Spec == Init /\ [][Next]_vars

\* one attempt of _analyze_batch, whatever its end
AnalyzeBatch == EncodeFails \/ CallRaises \/ EmptyResponse \/ Answer

\* every model call returns or raises, and every sleep ends
FairSpec == Spec /\ WF_vars(AnalyzeBatch) /\ WF_vars(Sleep)

(* ------------------------------- main ---------------------------------- *)
\* return <status> from main
Return(status) ==
  /\ phase' = "exit"
  /\ exit_status' = status

\* main goes on to its next step
GoOn(next_phase) ==
  /\ phase' = next_phase
  /\ UNCHANGED exit_status

\* if not file_manager.validate_directories(): return 1
ValidateDirectories ==
  /\ phase = "validate_directories"
  /\ steps' = Append(steps, "validate_directories")
  /\ \/ GoOn("test_api_connection")
     \/ Return(1)
  /\ UNCHANGED <<avars, pvars, input_dir, input_images, summary, session_id,
                 output_files, archive>>

\* a main that lists the input images before it gives up on the connection
TestApiConnection_after_listing ==
  /\ phase = "test_api_connection"
  /\ steps' = Append(steps, "test_api_connection")
  /\ \/ GoOn("get_input_images") /\ UNCHANGED input_images
     \/ Return(1) /\ input_images' = get_input_images(input_dir)
  /\ UNCHANGED <<avars, pvars, input_dir, summary, session_id,
                 output_files, archive>>

\* if not gemini_client.test_api_connection(): return 1
TestApiConnection ==
  /\ phase = "test_api_connection"
  /\ steps' = Append(steps, "test_api_connection")
  /\ \/ GoOn("get_input_images")
     \/ Return(1)
  /\ UNCHANGED <<avars, pvars, input_dir, input_images, summary, session_id,
                 output_files, archive>>

\* input_images = file_manager.get_input_images(); if not input_images: return 0
GetInputImages ==
  /\ phase = "get_input_images"
  /\ steps' = Append(steps, "get_input_images")
  /\ input_images' = get_input_images(input_dir)
  /\ IF get_input_images(input_dir) = <<>>
     THEN Return(0)
     ELSE GoOn("process_batch")
  /\ UNCHANGED <<avars, pvars, input_dir, summary, session_id, output_files,
                 archive>>

\* the image of the current iteration of process_batch
CurrentImage == input_images[idx]

\* a _process_single_image that moves a small image instead of copying it,
\* as FileManager.move_to_processed would
ProcessSingleImage_moving ==
  /\ phase = "process_batch"
  /\ ip = "idle"
  /\ idx <= Len(input_images)
  /\ steps' = IF idx = 1 THEN Append(steps, "process_batch") ELSE steps
  /\ LET initial_size == get_file_size_mb(input_dir, CurrentImage)
     IN IF initial_size <= MAX_IMAGE_SIZE_MB
        THEN /\ processed_dir' = WriteFile(processed_dir, CurrentImage, initial_size)
             /\ input_dir' = {f \in input_dir : f.name # CurrentImage}
             /\ last_op' = "copy2"
             /\ ip' = "ret"
             /\ UNCHANGED quality
        ELSE /\ quality' = compression_quality
             /\ ip' = "loop"
             /\ UNCHANGED <<processed_dir, last_op, input_dir>>
  /\ UNCHANGED <<avars, idx, encodes, saved, compression_quality,
                 processed_images, warnings, excluded,
                 phase, exit_status, input_images, summary,
                 session_id, output_files, archive>>

\* _process_single_image up to the copy or to the entry of the loop of
\* _compress_image
ProcessSingleImage ==
  /\ phase = "process_batch"
  /\ ip = "idle"
  /\ idx <= Len(input_images)
  /\ steps' = IF idx = 1 THEN Append(steps, "process_batch") ELSE steps
  /\ LET initial_size == get_file_size_mb(input_dir, CurrentImage)
     IN IF initial_size <= MAX_IMAGE_SIZE_MB
        THEN /\ processed_dir' = WriteFile(processed_dir, CurrentImage, initial_size)
             /\ last_op' = "copy2"
             /\ ip' = "ret"
             /\ UNCHANGED quality
        ELSE /\ quality' = compression_quality
             /\ ip' = "loop"
             /\ UNCHANGED <<processed_dir, last_op>>
  /\ UNCHANGED <<avars, idx, encodes, saved, compression_quality,
                 processed_images, warnings, excluded,
                 phase, exit_status, input_dir, input_images, summary,
                 session_id, output_files, archive>>

\* a loop that gives up after the last attempt without logging the warning
Save_silent ==
  /\ phase = "process_batch"
  /\ ip = "loop"
  /\ \E current_size \in SizePool :
       /\ processed_dir' = WriteFile(processed_dir, CurrentImage, current_size)
       /\ encodes' = encodes + 1
       /\ saved' = Append(saved, [quality |-> quality, size |-> current_size])
       /\ last_op' = "save"
       /\ IF current_size <= MAX_IMAGE_SIZE_MB
          THEN /\ ip' = "ret"
               /\ UNCHANGED quality
          ELSE /\ quality' = Max(QualityFloor, quality - QualityStep)
               /\ ip' = IF encodes = MaxCompressAttempts - 1 THEN "ret" ELSE "loop"
  /\ UNCHANGED <<avars, idx, compression_quality, processed_images, warnings,
                 excluded, mvars>>

\* one iteration of "for attempt in range(5)": img.save, then the size test
Save ==
  /\ phase = "process_batch"
  /\ ip = "loop"
  /\ \E current_size \in SizePool :
       /\ processed_dir' = WriteFile(processed_dir, CurrentImage, current_size)
       /\ encodes' = encodes + 1
       /\ saved' = Append(saved, [quality |-> quality, size |-> current_size])
       /\ last_op' = "save"
       /\ IF current_size <= MAX_IMAGE_SIZE_MB
          THEN /\ ip' = "ret"
               /\ UNCHANGED <<quality, warnings>>
          ELSE /\ quality' = Max(QualityFloor, quality - QualityStep)
               /\ IF encodes = MaxCompressAttempts - 1
                  THEN /\ warnings' = warnings \cup {CurrentImage}
                       /\ ip' = "ret"
                  ELSE /\ ip' = "loop"
                       /\ UNCHANGED warnings
  /\ UNCHANGED <<avars, idx, compression_quality, processed_images, excluded,
                 mvars>>

\* Image.open, the conversion or img.save raises: _compress_image re-raises
\* and process_batch logs the error and continues with the next image
CompressRaises ==
  /\ phase = "process_batch"
  /\ ip = "loop"
  /\ excluded' = excluded \cup {CurrentImage}
  /\ idx' = idx + 1
  /\ ip' = "idle"
  /\ quality' = 0
  /\ encodes' = 0
  /\ saved' = <<>>
  /\ last_op' = "none"
  /\ UNCHANGED <<avars, compression_quality, processed_images, processed_dir,
                 warnings, mvars>>

\* _process_single_image returns: processed_images.append(processed_path)
ReturnSingle ==
  /\ phase = "process_batch"
  /\ ip = "ret"
  /\ processed_images' = Append(processed_images, CurrentImage)
  /\ idx' = idx + 1
  /\ ip' = "idle"
  /\ quality' = 0
  /\ encodes' = 0
  /\ saved' = <<>>
  /\ last_op' = "none"
  /\ UNCHANGED <<avars, compression_quality, processed_dir, warnings, excluded,
                 mvars>>

\* process_batch returns; if not processed_images: return 1
ProcessBatchReturns ==
  /\ phase = "process_batch"
  /\ ip = "idle"
  /\ idx > Len(input_images)
  /\ IF processed_images = <<>>
     THEN Return(1)
     ELSE GoOn("validate_processed_images")
  /\ UNCHANGED <<avars, pvars, steps, input_dir, input_images, summary,
                 session_id, output_files, archive>>

\* valid_images = validate_processed_images(processed_images);
\* if not valid_images: return 1; else analyze_images(valid_images) starts
ValidateProcessedImages ==
  /\ phase = "validate_processed_images"
  /\ LET valid_images == validate_processed_images(processed_images, processed_dir)
     IN IF valid_images = <<>>
        THEN /\ Return(1)
             /\ steps' = Append(steps, "validate_processed_images")
             /\ UNCHANGED <<images, pc>>
        ELSE /\ GoOn("analyze_images")
             /\ steps' = steps \o <<"validate_processed_images", "analyze_images">>
             /\ images' = valid_images
             /\ pc' = "attempt"
  /\ UNCHANGED <<batch_size, i, attempt, calls, wait, all_results, outcome,
                 processed_data, model_products, pvars, input_dir, input_images, summary,
                 session_id, output_files, archive>>

RECURSIVE SumScores(_, _)
SumScores(data, ks) ==
  IF ks = {} THEN 0
  ELSE LET k == CHOOSE x \in ks : TRUE
       IN data[k]["score_completude"].num + SumScores(data, ks \ {k})

\* statuts.count(statut)
StatutCount(data, statut) ==
  Cardinality({k \in 1..Len(data) : data[k]["statut"] = statut})

\* generate_summary_report that leaves the records in error out of the total
generate_summary_report_without_errors(data) ==
  LET scores == {k \in 1..Len(data) : "score_completude" \in DOMAIN data[k]}
      total_images == StatutCount(data, "Complet") + StatutCount(data, "Partiel")
  IN [total_images |-> total_images,
      images_completes |-> StatutCount(data, "Complet"),
      images_partielles |-> StatutCount(data, "Partiel"),
      images_erreur |-> StatutCount(data, "Erreur"),
      score_moyen |-> [num |-> SumScores(data, scores),
                       den |-> Len(PRODUCT_SCHEMA) * Cardinality(scores)],
      taux_succes |-> [num |-> 100 * (StatutCount(data, "Complet")
                                        + StatutCount(data, "Partiel")),
                       den |-> total_images]]

\* DataProcessor.generate_summary_report on a non-empty list; the two
\* ratios are kept as exact fractions num/den
generate_summary_report(data) ==
  LET scores == {k \in 1..Len(data) : "score_completude" \in DOMAIN data[k]}
      total_images == Len(data)
  IN [total_images |-> total_images,
      images_completes |-> StatutCount(data, "Complet"),
      images_partielles |-> StatutCount(data, "Partiel"),
      images_erreur |-> StatutCount(data, "Erreur"),
      score_moyen |-> IF scores = {} THEN [num |-> 0, den |-> 1]
                      ELSE [num |-> SumScores(data, scores),
                            den |-> Len(PRODUCT_SCHEMA) * Cardinality(scores)],
      taux_succes |-> [num |-> 100 * (StatutCount(data, "Complet")
                                        + StatutCount(data, "Partiel")),
                       den |-> total_images]]

\* summary = data_processor.generate_summary_report(final_data); the test
\* "if not analysis_results: return 1" before it never succeeds, since
\* analyze_images returns at least one record per image of a non-empty list
GenerateSummaryReport ==
  /\ phase = "analyze_images"
  /\ pc = "done"
  /\ summary' = <<generate_summary_report(processed_data)>>
  /\ steps' = Append(steps, "generate_summary_report")
  /\ GoOn("generate_output_files")
  /\ UNCHANGED <<avars, pvars, input_dir, input_images, session_id,
                 output_files, archive>>

\* file_manager.create_session_id() after elapsed seconds
create_session_id(elapsed) == StartTime + elapsed

\* generate_output_files writes the CSV and the Excel file
GenerateOutputFiles ==
  /\ phase = "generate_output_files"
  /\ \E elapsed \in 0..MaxElapsed :
       output_files' = {[kind |-> "csv", session |-> create_session_id(elapsed)],
                        [kind |-> "excel", session |-> create_session_id(elapsed)]}
  /\ steps' = Append(steps, "generate_output_files")
  /\ GoOn("archive_processed_images")
  /\ UNCHANGED <<avars, pvars, input_dir, input_images, summary, session_id,
                 archive>>

\* _generate_csv or _generate_excel raises: main logs the error and returns 1
GenerateOutputFilesRaises ==
  /\ phase = "generate_output_files"
  /\ \/ UNCHANGED output_files
     \/ \E elapsed \in 0..MaxElapsed :
          output_files' = {[kind |-> "csv", session |-> create_session_id(elapsed)]}
  /\ steps' = Append(steps, "generate_output_files")
  /\ Return(1)
  /\ UNCHANGED <<avars, pvars, input_dir, input_images, summary, session_id,
                 archive>>

\* file_manager.archive_processed_images(session_id)
ArchiveProcessedImages ==
  /\ phase = "archive_processed_images"
  /\ archive' = archive \cup
       {[folder |-> session_id, name |-> f.name, size |-> f.size] : f \in processed_dir}
  /\ processed_dir' = {}
  /\ steps' = Append(steps, "archive_processed_images")
  /\ GoOn("clean_processed_dir")
  /\ UNCHANGED <<avars, idx, ip, quality, encodes, saved, compression_quality,
                 last_op, processed_images,
                 warnings, excluded, input_dir, input_images, summary,
                 session_id, output_files>>

\* file_manager.clean_processed_dir(); return 0
CleanProcessedDir ==
  /\ phase = "clean_processed_dir"
  /\ processed_dir' = {}
  /\ steps' = Append(steps, "clean_processed_dir")
  /\ Return(0)
  /\ UNCHANGED <<avars, idx, ip, quality, encodes, saved, compression_quality,
                 last_op, processed_images,
                 warnings, excluded, input_dir, input_images, summary,
                 session_id, output_files, archive>>

\* the input directories explored: the first images of ImagePool, each at
\* the ceiling or over it, and for at most one image a file that is no image
InputDirs ==
  UNION { UNION { { {[name |-> ImagePool[j], size |-> sz[j]] : j \in 1..n} \cup other :
                    other \in IF n <= 1
                              THEN {{}, {[name |-> NotesTxt, size |-> MAX_IMAGE_SIZE_MB]}}
                              ELSE {{}} } :
                  sz \in [1..n -> SizePool] } :
          n \in 0..Min(MaxImages, Len(ImagePool)) }

\* the entries of the model's arrays in the runs of main: the product that
\* cleans to a complete record and the one that cleans to a partial record
MainProductIds == {"PA", "PB"}

\* the state at the start of main
MainInit ==
  /\ input_dir \in InputDirs
  /\ batch_size \in 1..MaxBatchSize
  /\ images = <<>>
  /\ pc = "main"
  /\ i = 0
  /\ attempt = 1
  /\ calls = 0
  /\ wait = 0
  /\ all_results = <<>>
  /\ outcome = <<>>
  /\ processed_data = <<>>
  /\ model_products = MainProductIds
  /\ phase = "validate_directories"
  /\ exit_status = NotReturned
  /\ steps = <<>>
  /\ input_images = <<>>
  /\ idx = 1
  /\ ip = "idle"
  /\ quality = 0
  /\ encodes = 0
  /\ saved = <<>>
  /\ compression_quality = COMPRESSION_QUALITY
  /\ last_op = "none"
  /\ processed_images = <<>>
  /\ processed_dir = {}
  /\ warnings = {}
  /\ excluded = {}
  /\ summary = <<>>
  /\ session_id = StartTime
  /\ output_files = {}
  /\ archive = {}

MainNext ==
  \/ ValidateDirectories
  \/ TestApiConnection
  \/ GetInputImages
  \/ ProcessSingleImage
  \/ Save
  \/ CompressRaises
  \/ ReturnSingle
  \/ ProcessBatchReturns
  \/ ValidateProcessedImages
  \/ EncodeFails
  \/ CallRaises
  \/ EmptyResponse
  \/ Answer
  \/ Sleep
  \/ ProcessResults
  \/ GenerateSummaryReport
  \/ GenerateOutputFiles
  \/ GenerateOutputFilesRaises
  \/ ArchiveProcessedImages
  \/ CleanProcessedDir

\* a whole run of main
MainSpec == MainInit /\ [][MainNext]_vars

(* --------------------- process_batch on its own ------------------------ *)
\* configured values of COMPRESSION_QUALITY: under the floor, between the
\* floor and one step above it, the default
QualityPool == {10, 30, COMPRESSION_QUALITY}

\* main has listed at least one image and calls process_batch
CompressInit ==
  /\ input_dir \in {d \in InputDirs : get_input_images(d) # <<>>}
  /\ compression_quality \in QualityPool
  /\ batch_size \in 1..MaxBatchSize
  /\ images = <<>>
  /\ pc = "main"
  /\ i = 0
  /\ attempt = 1
  /\ calls = 0
  /\ wait = 0
  /\ all_results = <<>>
  /\ outcome = <<>>
  /\ processed_data = <<>>
  /\ model_products = MainProductIds
  /\ phase = "process_batch"
  /\ exit_status = NotReturned
  /\ steps = <<"validate_directories", "test_api_connection", "get_input_images">>
  /\ input_images = get_input_images(input_dir)
  /\ idx = 1
  /\ ip = "idle"
  /\ quality = 0
  /\ encodes = 0
  /\ saved = <<>>
  /\ last_op = "none"
  /\ processed_images = <<>>
  /\ processed_dir = {}
  /\ warnings = {}
  /\ excluded = {}
  /\ summary = <<>>
  /\ session_id = StartTime
  /\ output_files = {}
  /\ archive = {}

CompressNext ==
  \/ ProcessSingleImage
  \/ Save
  \/ CompressRaises
  \/ ReturnSingle
  \/ ProcessBatchReturns

\* process_batch for every configured quality
CompressSpec == CompressInit /\ [][CompressNext]_vars

(* ------------------------------ claims ---------------------------------- *)
\* the records of the b-th settled batch, and the images of that batch
RecordOf(b, j) == all_results[outcome[b].first + j]
ImagesOf(b) == Batch(outcome[b].start)
\* the number of records the b-th settled batch added to all_results
CountOf(b) ==
  (IF b < Len(outcome) THEN outcome[b + 1].first ELSE Len(all_results))
    - outcome[b].first
Settled == 1..Len(outcome)

\* no settled batch received more products than it has images
NoOverReturn ==
  \A b \in Settled : Len(outcome[b].produits) <= Len(ImagesOf(b))

\* C1: when no response holds more products than its batch has images,
\* analyze_images followed by process_results yields exactly len(images)
\* records and the i-th record carries the file name of the i-th image.
C1_FilenamePerImage ==
  (pc = "done" /\ NoOverReturn) =>
     /\ Len(processed_data) = Len(images)
     /\ \A k \in 1..Len(images) :
          processed_data[k]["nom_fichier"] = Str(images[k])

\* the record r is the product id as the model returned it: every string
\* value trimmed, every absent or null schema field "Non détecté"
IsReturnedProduct(r, id) ==
  \A f \in SchemaFields \cup DOMAIN Product(id) :
    /\ f \in DOMAIN r
    /\ IF f \in DOMAIN Product(id) /\ Product(id)[f].type = "str"
       THEN r[f] = Str(Strip(Product(id)[f].v))
       ELSE IF f \in DOMAIN Product(id) /\ Product(id)[f].type = "num"
       THEN r[f] = Product(id)[f]
       ELSE r[f] = Str(NonDetecte)

\* the record r points at the image called name
BoundTo(r, name) == r["chemin_fichier"] = Str(PathOf(name))

\* the record r is the under-return placeholder of the image called name
IsEmptyPlaceholder(r, name) ==
  /\ DOMAIN r = SchemaFields \cup {"nom_fichier", "chemin_fichier"}
  /\ r["nom_fichier"] = Str(name)
  /\ BoundTo(r, name)
  /\ r["source_information"] = Str(NonAnalyse)
  /\ \A f \in SchemaFields \ {"source_information"} : r[f] = Str(NonDetecte)

\* C2: a response with k products for a batch of n images, k < n, gives
\* exactly n records: the k products bound to images 1..k, then one
\* placeholder per remaining image, "Non analysé" as source_information,
\* "Non détecté" in every other schema field, and no error flag.
C2_UnderReturnPadded ==
  \A b \in Settled :
    (outcome[b].kind = "ok" /\ Len(outcome[b].produits) < Len(ImagesOf(b))) =>
      /\ CountOf(b) = Len(ImagesOf(b))
      /\ \A j \in 1..Len(ImagesOf(b)) :
           IF j <= Len(outcome[b].produits)
           THEN /\ IsReturnedProduct(RecordOf(b, j), outcome[b].produits[j])
                /\ BoundTo(RecordOf(b, j), ImagesOf(b)[j])
           ELSE IsEmptyPlaceholder(RecordOf(b, j), ImagesOf(b)[j])

\* a batch of two images for which the model returned one product
C2_Witness ==
  \E b \in Settled :
    /\ outcome[b].kind = "ok"
    /\ Len(ImagesOf(b)) = 2
    /\ Len(outcome[b].produits) = 1

\* C3: a response with k products for a batch of n images, k > n, gives k
\* records: the first n bound to the images by position, the i-th for i > n
\* named image_inconnue_<i> with an empty path; no product is discarded.
C3_OverReturnKept ==
  \A b \in Settled :
    (outcome[b].kind = "ok" /\ Len(outcome[b].produits) > Len(ImagesOf(b))) =>
      /\ CountOf(b) = Len(outcome[b].produits)
      /\ \A j \in 1..Len(outcome[b].produits) :
           /\ IsReturnedProduct(RecordOf(b, j), outcome[b].produits[j])
           /\ IF j <= Len(ImagesOf(b))
              THEN BoundTo(RecordOf(b, j), ImagesOf(b)[j])
              ELSE /\ RecordOf(b, j)["nom_fichier"] = Str(ImageInconnue \o ToDigits(j))
                   /\ RecordOf(b, j)["chemin_fichier"] = Str(<<>>)

\* a batch that received one product more than it has images
C3_Witness ==
  \E b \in Settled :
    /\ outcome[b].kind = "ok"
    /\ Len(outcome[b].produits) = Len(ImagesOf(b)) + 1
    /\ Len(all_results) >= outcome[b].first + Len(outcome[b].produits)

\* this step settles the current batch, and how
SettlesAs(kinds) ==
  /\ Len(outcome') = Len(outcome) + 1
  /\ outcome'[Len(outcome')].kind \in kinds

\* the records this step appends are one error placeholder per batch image
AppendsErrorPlaceholders ==
  /\ Len(all_results') = Len(all_results) + Len(Batch(i))
  /\ \A j \in 1..Len(Batch(i)) :
       /\ "erreur" \in DOMAIN all_results'[Len(all_results) + j]
       /\ all_results'[Len(all_results) + j]["nom_fichier"] = Str(Batch(i)[j])

CallsModel == CallRaises \/ EmptyResponse \/ Answer

\* C5: the model is called at most 3 times for one batch; the batches are
\* submitted in order, each after the previous one is settled; a wait
\* between two attempts lasts between 4 and 10 time units; and, each call
\* returning or raising, analyze_images terminates.
C5_RetryBounded ==
  /\ [](/\ attempt \in 1..StopAfterAttempt
        /\ calls < StopAfterAttempt
        /\ (pc = "sleep" => wait >= 4 /\ wait <= 10)
        /\ (pc \in {"attempt", "sleep"} =>
              /\ i = Len(outcome) * batch_size
              /\ i < Len(images)))
  /\ [][ /\ CallsModel => calls < StopAfterAttempt
         /\ \/ i' = i /\ outcome' = outcome
            \/ i' = i + batch_size /\ Len(outcome') = Len(outcome) + 1
         /\ (pc = "sleep" /\ pc' = "attempt") => attempt' = attempt + 1 ]_vars
  /\ <>(pc \in {"process", "done"})
  /\ [](pc \in {"process", "done"} => Len(outcome) = TotalBatches)

\* the second batch is at its third attempt after two waits and two calls
C5_Witness ==
  /\ Len(outcome) = 1
  /\ pc = "attempt"
  /\ attempt = StopAfterAttempt
  /\ calls = 2

\* the record r is the error placeholder of the image called name
IsErrorPlaceholder(r, name) ==
  /\ DOMAIN r = SchemaFields \cup {"nom_fichier", "chemin_fichier", "erreur"}
  /\ r["nom_fichier"] = Str(name)
  /\ BoundTo(r, name)
  /\ \A f \in SchemaFields \ {"source_information"} : r[f] = Str(ErreurDAnalyse)
  /\ r["erreur"].type = "str"
  /\ r["erreur"].v # <<>>
  /\ r["source_information"] = Str(ErreurPrefix \o r["erreur"].v)

\* C6: a batch of n images whose 3 attempts all failed yields n records,
\* one per image in order, each with a non-empty error message and, after
\* process_results, the status "Erreur"; the later batches are all
\* submitted and their records are those their own responses determine.
C6_FailedBatchContained ==
  \A b \in Settled :
    outcome[b].kind = "retry" =>
      /\ CountOf(b) = Len(ImagesOf(b))
      /\ \A j \in 1..Len(ImagesOf(b)) :
           /\ IsErrorPlaceholder(RecordOf(b, j), ImagesOf(b)[j])
           /\ pc = "done" =>
                processed_data[outcome[b].first + j]["statut"] = "Erreur"
      /\ pc \in {"process", "done"} => Len(outcome) = TotalBatches
      /\ \A c \in Settled :
           (c > b /\ outcome[c].kind = "ok") =>
             /\ outcome[c].start = (c - 1) * batch_size
             /\ \A j \in 1..Len(outcome[c].produits) :
                  IsReturnedProduct(RecordOf(c, j), outcome[c].produits[j])
             /\ \A j \in 1..Len(ImagesOf(c)) :
                  BoundTo(RecordOf(c, j), ImagesOf(c)[j])

\* the first batch failed three times, the second one was answered, and
\* process_results has run
C6_Witness ==
  /\ pc = "done"
  /\ Len(outcome) = 2
  /\ outcome[1].kind = "retry"
  /\ outcome[2].kind = "ok"
  /\ Len(outcome[2].produits) = 1

\* C7: a response that is not valid JSON, or is JSON without the key
\* "produits", yields for a batch of n images exactly n error placeholders,
\* one per image in order, and no record built from the response.
C7_UnparseableGivesPlaceholders ==
  \A b \in Settled :
    outcome[b].kind \in {"json", "nokey"} =>
      /\ CountOf(b) = Len(ImagesOf(b))
      /\ \A j \in 1..Len(ImagesOf(b)) :
           /\ IsErrorPlaceholder(RecordOf(b, j), ImagesOf(b)[j])
           /\ RecordOf(b, j)["erreur"] =
                Str(IF outcome[b].kind = "json" THEN MsgJSON ELSE MsgProduits)

\* a batch of two images answered by a JSON object without "produits"
C7_Witness ==
  \E b \in Settled :
    /\ outcome[b].kind = "nokey"
    /\ Len(ImagesOf(b)) = 2
    /\ Len(all_results) = outcome[b].first + 2

\* the record r has the seven schema fields, none of them null
HasAllFields(r) ==
  \A f \in SchemaFields : f \in DOMAIN r /\ r[f].type # "null"

\* C8: every record returned by analyze_images and every record returned
\* by process_results has the seven schema fields with a non-null value.
C8_AllFieldsPresent ==
  /\ \A k \in 1..Len(all_results) : HasAllFields(all_results[k])
  /\ \A k \in 1..Len(processed_data) : HasAllFields(processed_data[k])

\* a run whose first batch received a product with a null field and an
\* extra product lacking a field, and whose second batch failed
C8_Witness ==
  /\ pc = "done"
  /\ Len(outcome) = 2
  /\ outcome[1].kind = "ok"
  /\ outcome[1].produits = <<"PC", "PB">>
  /\ outcome[2].kind = "retry"
  /\ Len(processed_data) = 3

\* C9: cleaning a cleaned record changes none of its schema fields.
C9_CleanIdempotent ==
  \A k \in 1..Len(processed_data) :
    \A f \in SchemaFields :
      _clean_result(processed_data[k])[f] = processed_data[k][f]

\* C10: every record of process_results has a score between 0 and 100 and
\* a status among Complet, Partiel, Erreur: Erreur exactly with the error
\* flag, Complet exactly with a score of at least 80 and no error flag,
\* Partiel otherwise; the score counts the cleaned values.
C10_ScoreAndStatus ==
  \A k \in 1..Len(processed_data) :
    LET r == processed_data[k]
        score == r["score_completude"]
        filled == Cardinality({f \in SchemaFields : IsComplete(r[f])})
    IN /\ score.den = 7
       /\ score.num = 100 * filled
       /\ score.num >= 0
       /\ score.num <= 100 * score.den
       /\ r["statut"] \in {"Complet", "Partiel", "Erreur"}
       /\ r["statut"] = "Erreur" <=> "erreur" \in DOMAIN r
       /\ r["statut"] = "Complet" <=>
            (score.num >= 80 * score.den /\ "erreur" \notin DOMAIN r)
       /\ r["statut"] = "Partiel" <=>
            (score.num < 80 * score.den /\ "erreur" \notin DOMAIN r)

\* a complete record, and a record with six raw values that is Partiel
\* because cleaning left four
C10_Witness ==
  /\ pc = "done"
  /\ Len(outcome) = 2
  /\ Len(processed_data) = 2
  /\ outcome[1].produits = <<"PA">>
  /\ processed_data[1]["statut"] = "Complet"
  /\ outcome[2].produits = <<"PB">>
  /\ processed_data[2]["statut"] = "Partiel"
  /\ Cardinality({f \in SchemaFields : IsComplete(all_results[2][f])}) = 6

\* C11: volume cleaning replaces each unit word by the unit of the table:
\* "2 Litres" becomes "2 L", "500 millilitres" becomes "500 mL" and
\* "2 kilogrammes" becomes "2 kg".
C11_UnitTable ==
  \A k \in 1..Len(processed_data) :
    LET raw == all_results[k]["volume"]
        out == processed_data[k]["volume"]
    IN /\ raw = Str(<<"2"," ","L","i","t","r","e","s">>) =>
            out = Str(<<"2"," ","L">>)
       /\ raw = Str(<<"5","0","0"," ","m","i","l","l","i","l","i","t","r","e","s">>) =>
            out = Str(<<"5","0","0"," ","m","L">>)
       /\ raw = Str(<<"2"," ","k","i","l","o","g","r","a","m","m","e","s">>) =>
            out = Str(<<"2"," ","k","g">>)

\* C12: a price, volume or barcode that holds "Non détecté" or "Erreur
\* d'analyse" before _clean_result holds the same sentinel after it, and is
\* not counted by the completeness score.
C12_SentinelsKept ==
  \A k \in 1..Len(processed_data) :
    \A f \in {"prix_fcfa", "volume", "code_barres_ean"} :
      all_results[k][f] \in {Str(NonDetecte), Str(ErreurDAnalyse)} =>
        /\ processed_data[k][f] = all_results[k][f]
        /\ ~IsComplete(processed_data[k][f])

\* the elements of a sequence
Range(seq) == {seq[k] : k \in 1..Len(seq)}

\* some record of the run is bound to the staged file called name
HasRecord(name) ==
  \E k \in 1..Len(processed_data) :
    processed_data[k]["chemin_fichier"] = Str(PathOf(name))

\* C13: when _process_single_image returns, an image at or under the
\* ceiling was copied as it is without any encode, and an image over the
\* ceiling either has an output at or under the ceiling or was encoded
\* exactly 5 times with a warning logged; an image is never excluded
\* because of its size.
C13_SingleImageWithinCeiling ==
  /\ ip = "ret" =>
       LET initial_size == get_file_size_mb(input_dir, CurrentImage)
           final_size == get_file_size_mb(processed_dir, CurrentImage)
       IN /\ initial_size <= MAX_IMAGE_SIZE_MB =>
               /\ encodes = 0
               /\ last_op = "copy2"
               /\ final_size = initial_size
          /\ initial_size > MAX_IMAGE_SIZE_MB =>
               /\ last_op = "save"
               /\ encodes >= 1
               /\ \/ final_size <= MAX_IMAGE_SIZE_MB
                  \/ encodes = 5 /\ CurrentImage \in warnings
  /\ \A n \in warnings :
       /\ n \notin excluded
       /\ n \in Range(processed_images) \/ (ip = "ret" /\ n = CurrentImage)

\* _process_single_image returns after five encodes, the output still over
\* the ceiling
C13_Witness ==
  /\ phase = "process_batch"
  /\ ip = "ret"
  /\ encodes = 5
  /\ CurrentImage \in warnings
  /\ get_file_size_mb(processed_dir, CurrentImage) > MAX_IMAGE_SIZE_MB

\* C14: an image still over the ceiling after the 5 attempts is passed on
\* to analyze_images and yields a record.
C14_OversizedStaysInRun ==
  phase = "exit" =>
    \A n \in warnings : n \in Range(images) /\ HasRecord(n)

\* no file of the input directory has a supported extension
NoSupportedFile ==
  \A f \in input_dir : Lower(Suffix(f.name)) \notin SUPPORTED_IMAGE_FORMATS

\* nothing was staged, archived, written or submitted to the model
NothingProcessed ==
  /\ processed_dir = {}
  /\ processed_images = <<>>
  /\ archive = {}
  /\ output_files = {}
  /\ pc = "main"
  /\ calls = 0
  /\ outcome = <<>>

\* C15: when the input directory holds no file with a supported extension,
\* main returns 0, writes no output file, stages and archives nothing and
\* submits no batch.
C15_NoImageNeutral ==
  NoSupportedFile =>
    /\ NothingProcessed
    /\ phase = "exit" => exit_status = 0

\* C15 (amended): when the input directory holds no file with a supported
\* extension, main writes no output file, stages and archives nothing and
\* submits no batch; it returns 0 if the directories and the connection
\* were validated, and 1 otherwise.
C15_NoImageNeutralOnceValidated ==
  NoSupportedFile =>
    /\ NothingProcessed
    /\ phase = "exit" =>
         exit_status = (IF "get_input_images" \in Range(steps) THEN 0 ELSE 1)

\* main has returned 0 on a directory that holds only a text file
C15_Witness ==
  /\ phase = "exit"
  /\ exit_status = 0
  /\ input_dir # {}
  /\ NoSupportedFile
  /\ "get_input_images" \in Range(steps)

\* main has returned because test_api_connection returned False
ConnectionFailed ==
  /\ phase = "exit"
  /\ steps = <<"validate_directories", "test_api_connection">>

\* C16: when the connectivity check fails main returns 1 and no image is
\* listed, staged, submitted, written out or archived; in every run the
\* connectivity check comes before every processing step.
C16_ConnectivityFirst ==
  /\ ConnectionFailed =>
       /\ exit_status = 1
       /\ input_images = <<>>
       /\ NothingProcessed
       /\ summary = <<>>
  /\ \A k \in 1..Len(steps) :
       steps[k] \notin {"validate_directories", "test_api_connection"} =>
         \E j \in 1..(k - 1) : steps[j] = "test_api_connection"
  /\ (input_images # <<>> \/ ~NothingProcessed) =>
       "get_input_images" \in Range(steps)

\* the connectivity check has failed on a directory that holds an image
C16_Witness ==
  /\ ConnectionFailed
  /\ ~NoSupportedFile

\* C17: when the compression of an image raises, every other input image
\* is returned by process_batch in input order and passed on to
\* analyze_images, and the run has no record for the excluded image.
C17_OnlyRaisingImageExcluded ==
  (phase = "exit" /\ excluded # {}) =>
    LET others == SelectSeq(input_images, LAMBDA n : n \notin excluded)
    IN /\ processed_images = others
       /\ images = others
       /\ \A n \in excluded : ~HasRecord(n)

\* C18: once classification has yielded a record the run produces a
\* summary, before any output file is written, in which total = complete +
\* partial + error, the success rate is (complete + partial) / total * 100
\* and the mean score is the mean of the records' scores.
C18_SummaryConsistent ==
  /\ (phase = "exit" /\ all_results # <<>>) => summary # <<>>
  /\ output_files # {} => summary # <<>>
  /\ "generate_output_files" \in Range(steps) =>
       \E j \in 1..Len(steps) :
         /\ steps[j] = "generate_summary_report"
         /\ \A k \in 1..j : steps[k] # "generate_output_files"
  /\ summary # <<>> =>
       LET r == summary[1]
           n == Len(processed_data)
           count(st) == Cardinality({k \in 1..n : processed_data[k]["statut"] = st})
       IN /\ n >= 1
          /\ r.total_images = n
          /\ r.images_completes = count("Complet")
          /\ r.images_partielles = count("Partiel")
          /\ r.images_erreur = count("Erreur")
          /\ r.total_images = r.images_completes + r.images_partielles + r.images_erreur
          /\ r.taux_succes.den > 0
          /\ r.taux_succes.num * n =
               100 * (r.images_completes + r.images_partielles) * r.taux_succes.den
          /\ r.score_moyen.den > 0
          /\ r.score_moyen.num * Len(PRODUCT_SCHEMA) * n =
               SumScores(processed_data, 1..n) * r.score_moyen.den

\* a run that ended well although every record is an error placeholder
C18_Witness ==
  /\ phase = "exit"
  /\ exit_status = 0
  /\ summary # <<>>
  /\ Len(processed_data) = 2
  /\ summary[1].images_erreur = 2
  /\ output_files # {}

\* C19: after a run that staged an image, whatever its exit path, every
\* staged file is in the archive folder of the session and the processing
\* directory is empty.
C19_StagedAlwaysArchived ==
  phase = "exit" =>
    /\ processed_dir = {}
    /\ \A n \in Range(processed_images) :
         \E a \in archive : a.folder = session_id /\ a.name = n

\* C20: the timestamp in the names of the CSV and Excel files is the
\* session identifier of main, which names the archive folder.
C20_SingleSessionId ==
  /\ \A f \in output_files : f.session = session_id
  /\ \A a \in archive : a.folder = session_id

\* C21: the first encode uses the configured quality, each re-encode uses
\* the previous quality minus 15, never under 20 and never over the
\* previous quality; encoding stops at the first output at or under the
\* ceiling and at most 5 encodes are made.
C21_QualityLadder ==
  /\ Len(saved) <= 5
  /\ \A k \in 1..Len(saved) :
       /\ k = 1 => saved[k].quality = compression_quality
       /\ k > 1 =>
            /\ saved[k].quality = Max(20, saved[k - 1].quality - 15)
            /\ saved[k].quality >= 20
            /\ saved[k].quality <= saved[k - 1].quality
       /\ k < Len(saved) => saved[k].size > MAX_IMAGE_SIZE_MB

\* C22: a response whose payload is a JSON object with a "produits" array
\* gives the same records when it is wrapped in a fence opened with the
\* json tag or in a plain fence as when it is not wrapped.
C22_FencesStripped ==
  [][ \A response_text \in ResponseTexts("{produits}") :
        \A produits \in ProductLists(Len(Batch(i))) :
          Respond(response_text, produits) =>
            all_results' = all_results \o
              _parse_gemini_response(<<"{produits}">>, produits, Batch(i)) ]_vars

\* C24: a record built from a product of a successfully parsed response
\* never has the status "Erreur".
C24_ReturnedProductNeverErreur ==
  pc = "done" =>
    \A b \in Settled :
      outcome[b].kind = "ok" =>
        \A j \in 1..Len(outcome[b].produits) :
          processed_data[outcome[b].first + j]["statut"] # "Erreur"

\* C23: no step of a run removes, renames or rewrites a file of the input
\* directory, on any exit path, so that listing the directory again gives
\* the images the run listed.
C23_InputDirUntouched ==
  /\ []("get_input_images" \in Range(steps) =>
          get_input_images(input_dir) = input_images)
  /\ [][input_dir' = input_dir]_vars

\* a run has ended well: the archive holds the re-encoded copy of an image
\* whose file in the input directory is still over the ceiling
C23_Witness ==
  /\ phase = "exit"
  /\ exit_status = 0
  /\ processed_dir = {}
  /\ \E a \in archive :
       \E f \in input_dir :
         /\ f.name = a.name
         /\ f.size > MAX_IMAGE_SIZE_MB
         /\ a.size <= MAX_IMAGE_SIZE_MB

====
